---- MODULE Spec2Model ----
(***************************************************************************)
(* A model of the InsureChat message-template manager: the placeholder     *)
(* engine (extractVariables, replaceVariables, normalizeContent) as        *)
(* operators over character sequences, and the App component's state and   *)
(* handlers as a state machine.                                            *)
(*                                                                         *)
(* A text is a sequence of one-character strings.  Where the origin of a   *)
(* character matters, a text is carried as a sequence of cells             *)
(* [c |-> character, o |-> origin]: o is the character's index in the      *)
(* template content, or 0 for a character that a value brought in.  The    *)
(* origin is a ghost: no operator of the engine reads it.                  *)
(***************************************************************************)
EXTENDS Integers, Sequences, FiniteSets, TLC

VARIABLES
    \* ---- the engine's inputs and results (SpecExtract, SpecSubst, SpecNorm,
    \* ---- SpecPlain)
    content,      \* the text handed to the engine
    values,       \* the VariableMap, as its Object.entries() sequence
    names,        \* extractVariables(content), or NotRun
    out,          \* replaceVariables(content, values), or NotRun
    out2,         \* replaceVariables(out, values), or NotRun
    norm,         \* normalizeContent(content), or NotRun
    plain,        \* htmlToPlainText(content), or NotRun
    \* ---- the App component (Spec)
    templates,          \* useState<Template[]>
    selectedTemplateId, \* useState<string | null>
    isEditing,          \* useState(false)
    editForm,           \* useState<Partial<Template>>
    variableValues,     \* useState<VariableMap>, as its entries in order
    discarded,          \* whether a reset has thrown a typed value away (history only)
    showAiModal,        \* useState(false)
    aiPrompt,           \* useState('')
    isGeneratingAI,     \* useState(false)
    aiRequest,          \* the suggestContent call awaited by handleAiSuggestion
    aiOutcome,          \* how the last suggestContent call ended (history only)
    pendingCopies,      \* the handleCopy calls awaiting navigator.clipboard.write
    stored,             \* localStorage[STORAGE_KEY]
    apiKey,             \* whether process.env.API_KEY is set
    now,                \* Date.now()
    nextId              \* the ids generateId has yet to hand out

engineVars == <<content, values, names, out, out2, norm, plain>>

\* What a handler's setTemplates and setSelectedTemplateId, and the effects
\* that hang on them, write.
collectionVars == <<templates, selectedTemplateId, stored, variableValues, discarded>>

editVars == <<isEditing, editForm>>

aiVars == <<showAiModal, aiPrompt, isGeneratingAI, aiRequest, aiOutcome>>

envVars == <<apiKey, now, nextId>>

appVars == <<collectionVars, editVars, aiVars, pendingCopies, envVars>>

vars == <<engineVars, appVars>>

NotRun == [run |-> FALSE]

\* The App's specification leaves the engine's variables as they are.
EngineIdle ==
    /\ content = <<>> /\ values = <<>>
    /\ names = NotRun /\ out = NotRun /\ out2 = NotRun /\ norm = NotRun
    /\ plain = NotRun

(***************************************************************************)
(* Text helpers                                                            *)
(***************************************************************************)
Range(s) == {s[i] : i \in DOMAIN s}

\* The cells of a template text: character i has origin i.
Tag(s) == [i \in 1..Len(s) |-> [c |-> s[i], o |-> i]]

\* The cells of a text that a value brings in.
Val(s) == [i \in 1..Len(s) |-> [c |-> s[i], o |-> 0]]

\* The characters of a sequence of cells.
Chars(cells) == [i \in 1..Len(cells) |-> cells[i].c]

RECURSIVE Concat(_)
Concat(ss) == IF ss = <<>> THEN <<>> ELSE Head(ss) \o Concat(Tail(ss))

\* t occurs in s at index i.
OccursAt(t, s, i) == i >= 1 /\ i + Len(t) - 1 <= Len(s) /\ SubSeq(s, i, i + Len(t) - 1) = t

\* s.includes(t)
Includes(s, t) == \E i \in 1..(Len(s) + 1) : OccursAt(t, s, i)

Braced(name) == <<"{">> \o name \o <<"}">>

(***************************************************************************)
(* extractVariables: text.match(/\{([^}]+)\}/g), Set, slice(1, -1)         *)
(***************************************************************************)
\* The index of the first "}" of text at or after i, or 0.
RECURSIVE NextClose(_, _)
NextClose(text, i) ==
    IF i > Len(text) THEN 0
    ELSE IF text[i] = "}" THEN i
    ELSE NextClose(text, i + 1)

\* One attempt of /\{([^}]+)\}/ at index i: the index of the closing brace, or
\* 0.  [^}]+ is greedy and takes every character up to the next "}", an
\* opening brace included; it needs at least one character.
MatchBraceAt(text, i) ==
    IF i <= Len(text) /\ text[i] = "{"
    THEN LET j == NextClose(text, i + 1)
         IN  IF j >= i + 2 THEN j ELSE 0
    ELSE 0

\* The spans <<first, last>> of the successive matches of the global regex
\* from index i on: leftmost first, the scan resuming after each match.
RECURSIVE MatchSpans(_, _)
MatchSpans(text, i) ==
    IF i > Len(text) THEN <<>>
    ELSE LET j == MatchBraceAt(text, i)
         IN  IF j # 0 THEN <<(<<i, j>>)>> \o MatchSpans(text, j + 1)
             ELSE MatchSpans(text, i + 1)

\* text.match(regex): the matched substrings, braces included.
StringMatchAll(text) ==
    LET sp == MatchSpans(text, 1)
    IN  [k \in 1..Len(sp) |-> SubSeq(text, sp[k][1], sp[k][2])]

\* [...new Set(matches)]: insertion order, the first of equal elements kept.
RECURSIVE SetOrder(_)
SetOrder(ms) ==
    IF ms = <<>> THEN <<>>
    ELSE LET init == SetOrder(SubSeq(ms, 1, Len(ms) - 1))
             last == ms[Len(ms)]
         IN  IF last \in Range(init) THEN init ELSE Append(init, last)

\* m.slice(1, -1)
Slice1(m) == SubSeq(m, 2, Len(m) - 1)

extractVariables(text) ==
    LET matches == StringMatchAll(text)
    IN  IF matches = <<>> THEN <<>>
        ELSE LET uniq == SetOrder(matches)
             IN  [k \in 1..Len(uniq) |-> Slice1(uniq[k])]

(***************************************************************************)
(* replaceVariables                                                        *)
(***************************************************************************)
\* s.replace(/c/g, r) for a one-character pattern c.
RECURSIVE ReplaceChar(_, _, _)
ReplaceChar(s, c, r) ==
    IF s = <<>> THEN <<>>
    ELSE (IF Head(s) = c THEN r ELSE <<Head(s)>>) \o ReplaceChar(Tail(s), c, r)

\* value.replace(/&/g, "&amp;").replace(/</g, "&lt;").replace(/>/g, "&gt;")
EscapeHtml(value) ==
    ReplaceChar(
        ReplaceChar(
            ReplaceChar(value, "&", <<"&", "a", "m", "p", ";">>),
            "<", <<"&", "l", "t", ";">>),
        ">", <<"&", "g", "t", ";">>)

\* The replacement string of one entry: the escaped value, or, for an empty
\* value, the literal `{${key}}`.
SafeValue(key, value) ==
    IF value # <<>> THEN EscapeHtml(value) ELSE Braced(key)

\* One character of a key read as regular-expression source.  "." is the
\* wildcard and "$" the end-of-input assertion; every other character of the
\* alphabet used here stands for itself ("{" and "}" do too when no digits
\* follow them).
Atom(ch) ==
    CASE ch = "." -> [k |-> "any"]
      [] ch = "$" -> [k |-> "end"]
      [] OTHER    -> [k |-> "lit", c |-> ch]

\* new RegExp(`\\{${key}\\}`, 'g'): the key is spliced in unescaped.  A "("
\* opens a group that nothing closes (the alphabet has no ")"), and the
\* constructor throws a SyntaxError.
NewRegExp(key) ==
    IF "(" \in Range(key)
    THEN [threw |-> TRUE, atoms |-> <<>>]
    ELSE [threw |-> FALSE,
          atoms |-> <<[k |-> "lit", c |-> "{"]>>
                    \o [i \in 1..Len(key) |-> Atom(key[i])]
                    \o <<[k |-> "lit", c |-> "}"]>>]

\* The atoms from the k-th on match cells at index i: the index after the
\* match, or 0.  "." matches any character but a line terminator.
RECURSIVE MatchAt(_, _, _, _)
MatchAt(atoms, k, cells, i) ==
    IF k > Len(atoms) THEN i
    ELSE LET a == atoms[k]
         IN  CASE a.k = "end" ->
                    IF i = Len(cells) + 1 THEN MatchAt(atoms, k + 1, cells, i) ELSE 0
               [] a.k = "any" ->
                    IF i <= Len(cells) /\ cells[i].c # "\n"
                    THEN MatchAt(atoms, k + 1, cells, i + 1) ELSE 0
               [] OTHER ->
                    IF i <= Len(cells) /\ cells[i].c = a.c
                    THEN MatchAt(atoms, k + 1, cells, i + 1) ELSE 0

\* The text a replacement string stands for at one match: "$$" is a "$",
\* "$&" the matched text and "$'" the text after the match; any other
\* character, a "$" before another character of the alphabet used here
\* included, stands for itself.
RECURSIVE Expand(_, _, _)
Expand(repl, matched, after) ==
    IF repl = <<>> THEN <<>>
    ELSE IF Len(repl) >= 2 /\ repl[1] = "$" /\ repl[2] = "$"
         THEN Val(<<"$">>) \o Expand(SubSeq(repl, 3, Len(repl)), matched, after)
    ELSE IF Len(repl) >= 2 /\ repl[1] = "$" /\ repl[2] = "&"
         THEN Val(Chars(matched)) \o Expand(SubSeq(repl, 3, Len(repl)), matched, after)
    ELSE IF Len(repl) >= 2 /\ repl[1] = "$" /\ repl[2] = "'"
         THEN Val(Chars(after)) \o Expand(SubSeq(repl, 3, Len(repl)), matched, after)
    ELSE Val(<<repl[1]>>) \o Expand(Tail(repl), matched, after)

\* Origins only: a replacement that spells the very text it replaces (an
\* unfilled `{key}` over `{key}`) leaves that text as it was.
Stamp(expanded, matched) ==
    IF Chars(expanded) = Chars(matched) THEN matched ELSE expanded

\* newText.replace(regex, safeValue) from index i on: every match, leftmost
\* first, gives way to the expanded replacement; the scan resumes after it.
RECURSIVE StringReplace(_, _, _, _)
StringReplace(cells, i, atoms, repl) ==
    IF i > Len(cells) THEN <<>>
    ELSE LET e == MatchAt(atoms, 1, cells, i)
         IN  IF e # 0
             THEN Stamp(Expand(repl, SubSeq(cells, i, e - 1), SubSeq(cells, e, Len(cells))),
                        SubSeq(cells, i, e - 1))
                  \o StringReplace(cells, e, atoms, repl)
             ELSE <<cells[i]>> \o StringReplace(cells, i + 1, atoms, repl)

\* Object.entries(variables).forEach(...) from the k-th entry on, over the
\* text as the entries so far left it.  A throw ends the call.
RECURSIVE ReplaceEntries(_, _, _)
ReplaceEntries(cells, variables, k) ==
    IF k > Len(variables) THEN [run |-> TRUE, threw |-> FALSE, cells |-> cells]
    ELSE LET key   == variables[k].key
             regex == NewRegExp(key)
         IN  IF regex.threw THEN [run |-> TRUE, threw |-> TRUE, cells |-> <<>>]
             ELSE ReplaceEntries(
                      StringReplace(cells, 1, regex.atoms, SafeValue(key, variables[k].value)),
                      variables, k + 1)

replaceVariables(text, variables) == ReplaceEntries(Tag(text), variables, 1)

(***************************************************************************)
(* normalizeContent                                                        *)
(***************************************************************************)
Letters == {"a", "b", "c", "x"}

\* /<[a-z][\s\S]*>/i.test(content): a "<", a letter right after it, and a
\* ">" anywhere later.
HasTagRegex(text) ==
    \E i \in 1..Len(text) :
        /\ text[i] = "<"
        /\ i + 1 <= Len(text) /\ text[i + 1] \in Letters
        /\ \E j \in (i + 2)..Len(text) : text[j] = ">"

normalizeContent(text) ==
    IF text = <<>> THEN <<>>
    ELSE IF ~HasTagRegex(text) /\ "\n" \in Range(text)
         THEN ReplaceChar(text, "\n", <<"<", "b", "r", ">">>)
         ELSE text

(***************************************************************************)
(* htmlToPlainText.  The parsed content of the temporary div is carried as  *)
(* its nodes in document order: a character of text, the start of an       *)
(* element, the end of an element.  For markup whose tags are balanced     *)
(* that sequence is the tree.  A character of text keeps the way it came   *)
(* to be (a ghost that no operator of the code reads): written as itself   *)
(* ("text"), decoded from a character reference ("entity"), or put in for  *)
(* a block element ("block").                                              *)
(***************************************************************************)
\* The character references the parser decodes here.
CharRefs ==
    {[ref |-> <<"&", "l", "t", ";">>, c |-> "<"],
     [ref |-> <<"&", "g", "t", ";">>, c |-> ">"],
     [ref |-> <<"&", "a", "m", "p", ";">>, c |-> "&"]}

TagLetters == {"b", "p", "r"}

\* The elements that have no end tag.
VoidElements == {<<"b", "r">>}

\* const blockElements = ['p', 'div', 'br', 'li', 'tr'], "br" apart.
BlockElements == {<<"p">>, <<"d", "i", "v">>, <<"l", "i">>, <<"t", "r">>}

\* The index of the first ">" at or after i, or 0.
RECURSIVE NextGt(_, _)
NextGt(html, i) ==
    IF i > Len(html) THEN 0
    ELSE IF html[i] = ">" THEN i ELSE NextGt(html, i + 1)

\* temp.textContent = html in the place of temp.innerHTML = html: nothing is
\* parsed, every character is text.
ParseAsText(html, i) ==
    [k \in 1..(Len(html) - i + 1) |->
        [k |-> "text", c |-> html[i + k - 1], from |-> "text"]]

\* temp.innerHTML = html, from index i on: a "<" and a letter open a start
\* tag and "</" and a letter an end tag, each up to the next ">"; a character
\* reference is one character of text; any other character is text.
RECURSIVE ParseHtml(_, _)
ParseHtml(html, i) ==
    IF i > Len(html) THEN <<>>
    ELSE LET isStart == /\ html[i] = "<" /\ i + 1 <= Len(html)
                        /\ html[i + 1] \in TagLetters /\ NextGt(html, i + 2) # 0
             isEnd   == /\ html[i] = "<" /\ i + 2 <= Len(html) /\ html[i + 1] = "/"
                        /\ html[i + 2] \in TagLetters /\ NextGt(html, i + 3) # 0
             refs    == {r \in CharRefs : OccursAt(r.ref, html, i)}
         IN  IF isStart
             THEN LET e == NextGt(html, i + 2)
                  IN  <<[k |-> "start", name |-> SubSeq(html, i + 1, e - 1)]>>
                      \o ParseHtml(html, e + 1)
             ELSE IF isEnd
             THEN LET e == NextGt(html, i + 3)
                  IN  <<[k |-> "end", name |-> SubSeq(html, i + 2, e - 1)]>>
                      \o ParseHtml(html, e + 1)
             ELSE IF refs # {}
             THEN LET r == CHOOSE r \in refs : TRUE
                  IN  <<[k |-> "text", c |-> r.c, from |-> "entity"]>>
                      \o ParseHtml(html, i + Len(r.ref))
             ELSE <<[k |-> "text", c |-> html[i], from |-> "text"]>>
                  \o ParseHtml(html, i + 1)

NewlineNode == [k |-> "text", c |-> "\n", from |-> "block"]

\* The forEach over blockElements: el.replaceWith('\n') for each br,
\* el.after('\n') for each element of the other block tags.
RECURSIVE BlockNewlines(_)
BlockNewlines(nodes) ==
    IF nodes = <<>> THEN <<>>
    ELSE LET n == Head(nodes)
         IN  (CASE n.k = "start" /\ n.name \in VoidElements -> <<NewlineNode>>
                [] n.k = "end" /\ n.name \in BlockElements  -> <<n, NewlineNode>>
                [] OTHER                                    -> <<n>>)
             \o BlockNewlines(Tail(nodes))

\* temp.textContent: the text of the nodes, in document order.
TextContent(nodes) == SelectSeq(nodes, LAMBDA n : n.k = "text")

\* The nodes of the text htmlToPlainText returns.
PlainNodes(html) == TextContent(BlockNewlines(ParseHtml(html, 1)))

htmlToPlainText(html) ==
    LET text == PlainNodes(html)
    IN  [k \in DOMAIN text |-> text[k].c]

(***************************************************************************)
(* The engine's inputs.  A text is a concatenation of at most a bounded    *)
(* number of tokens, so that texts with several placeholders, nested and   *)
(* unbalanced braces and markup characters are all within the bounds.      *)
(***************************************************************************)
MaxExtractTokens == 4
MaxSubstTokens == 3
MaxEntries == 2
MaxNormLen == 5

Texts(tokens, n) ==
    {Concat(ts) : ts \in UNION {[1..k -> tokens] : k \in 0..n}}

ExtractTokens == {<<"{">>, <<"}">>, <<"a">>, <<"{", "a", "}">>, <<"{", "b", "}">>}

ExtractInputs == Texts(ExtractTokens, MaxExtractTokens)

SubstTokens ==
    {<<"{">>, <<"}">>, <<"<">>, <<"&">>, <<".">>, <<"(">>,
     <<"{", "a", "}">>, <<"{", "b", "}">>}

SubstInputs == Texts(SubstTokens, MaxSubstTokens)

\* Placeholder names: plain ones, ones with a character that a regular
\* expression reads specially, and one that holds an opening brace.
Keys == {<<"a">>, <<"b">>, <<".">>, <<"(">>, <<"<", "{", "a">>}

\* Values a user may type, the empty one included.
Vals == {<<>>, <<"b">>, <<"<">>, <<"&">>, <<"$", "<">>, <<"$", "'">>}

Entries == [key : Keys, value : Vals]

\* A VariableMap: entries in insertion order, no key twice.
VariableMaps ==
    {m \in UNION {[1..k -> Entries] : k \in 0..MaxEntries} :
        \A i, j \in DOMAIN m : i # j => m[i].key # m[j].key}

\* Markup for htmlToPlainText: a letter, character references, an inline
\* element, a line break and a block element.
MaxPlainTokens == 4

PlainTokens ==
    {<<"b">>, <<"&", "l", "t", ";">>, <<"&", "g", "t", ";">>, <<"&", "a", "m", "p", ";">>,
     <<"<", "b", ">">>, <<"<", "/", "b", ">">>, <<"<", "b", "r", ">">>,
     <<"<", "p", ">">>, <<"<", "/", "p", ">">>}

\* Whether the nodes close every element of the stack (innermost first) and
\* every element they open, each end tag closing the innermost open element,
\* with no p inside a p.
RECURSIVE ClosesAll(_, _)
ClosesAll(nodes, stack) ==
    IF nodes = <<>> THEN stack = <<>>
    ELSE LET n == Head(nodes)
         IN  CASE n.k = "start" /\ n.name \in VoidElements ->
                    ClosesAll(Tail(nodes), stack)
               [] n.k = "start" ->
                    /\ ~(n.name = <<"p">> /\ <<"p">> \in Range(stack))
                    /\ ClosesAll(Tail(nodes), <<n.name>> \o stack)
               [] n.k = "end" ->
                    /\ stack # <<>> /\ Head(stack) = n.name
                    /\ ClosesAll(Tail(nodes), Tail(stack))
               [] OTHER -> ClosesAll(Tail(nodes), stack)

\* Well-formed markup: every element is closed where it was opened.
WellFormed(html) == ClosesAll(ParseHtml(html, 1), <<>>)

PlainInputs == {t \in Texts(PlainTokens, MaxPlainTokens) : WellFormed(t)}

NormChars == {"a", "<", ">", "/", "\n"}

NormInputs == UNION {[1..k -> NormChars] : k \in 0..MaxNormLen}

(***************************************************************************)
(* The App component.  A Template is [id, title, content, lastUsed]; its   *)
(* category, which no handler reads, is left out, and so are the search    *)
(* box, the category filter, sidebarOpen and isCopied, which only choose   *)
(* what is drawn.  Ids are numbers from 1; 0 stands for null/undefined.    *)
(* The sidebar is taken to be within reach whenever the AI modal, which    *)
(* overlays the whole page, is not shown.                                  *)
(***************************************************************************)
MaxClock == 3
MaxNewTemplates == 1
MaxPendingCopies == 1

TitleText == <<"t">>
ContentA == <<"{", "a", "}">>
ContentB == <<"{", "b", "}">>

\* What the user may leave in the title box, the content editor, a variable
\* input and the prompt box; what the assistant may answer.
Titles == {<<>>, TitleText}
Contents == {<<>>, ContentA, ContentB}
Inputs == {<<>>, <<"v">>}
Prompts == {<<>>, <<" ">>, <<"p">>}
Answers == {<<>>, ContentA, ContentB}

\* INITIAL_TEMPLATES at clock t: lastUsed is Date.now(), Date.now() - 10000
\* and Date.now() - 20000, one tick of the clock standing for 10000 ms.
INITIAL_TEMPLATES(t) ==
    <<[id |-> 1, title |-> TitleText, content |-> ContentA, lastUsed |-> t],
      [id |-> 2, title |-> TitleText, content |-> ContentB, lastUsed |-> t - 1],
      [id |-> 3, title |-> TitleText, content |-> ContentA, lastUsed |-> t - 2]>>

NumInitial == Len(INITIAL_TEMPLATES(0))

\* Partial<Template> {}: no field set.
EmptyForm == [id |-> 0, title |-> <<>>, content |-> <<>>, lastUsed |-> 0]

\* No call awaited.  A call carries the content it was given; formId, the id
\* of the form it was made from, is history only.
NoRequest == [active |-> FALSE, currentContent |-> <<>>, formId |-> 0]

NoStorage == [has |-> FALSE, data |-> <<>>]

\* getTemplates(): the stored collection, or INITIAL_TEMPLATES without one.
getTemplates(storage, t) ==
    IF storage.has THEN storage.data ELSE INITIAL_TEMPLATES(t)

\* The load effect: every template's content goes through normalizeContent.
LoadTemplates(storage, t) ==
    LET loaded == getTemplates(storage, t)
    IN  [k \in DOMAIN loaded |->
            [loaded[k] EXCEPT !.content = normalizeContent(loaded[k].content)]]

\* The save effect, run when templates was set: an empty collection is not
\* written.
SaveEffect(ts, storage) ==
    IF Len(ts) > 0 THEN [has |-> TRUE, data |-> ts] ELSE storage

\* templates.find(t => t.id === selectedTemplateId): its index, or 0.
ActiveIndex(ts, sel) ==
    LET hits == {k \in DOMAIN ts : ts[k].id = sel}
    IN  IF hits = {} THEN 0 ELSE CHOOSE k \in hits : \A l \in hits : k <= l

\* activeTemplate?.id, 0 for undefined.
ActiveId(ts, sel) == IF ActiveIndex(ts, sel) = 0 THEN 0 ELSE sel

activeTemplate == templates[ActiveIndex(templates, selectedTemplateId)]

HasActive == ActiveIndex(templates, selectedTemplateId) # 0

\* The map the reset effect builds: every variable of the content, empty.
InitialMap(text) ==
    LET vs == extractVariables(text)
    IN  [k \in DOMAIN vs |-> [key |-> vs[k], value |-> <<>>]]

\* The reset effect is keyed on activeTemplate?.id: it runs when that id
\* changed, and does something only when there is an active template.
ResetRuns(ts, sel) ==
    ActiveId(ts, sel) # ActiveId(templates, selectedTemplateId) /\ ActiveId(ts, sel) # 0

\* The reset effect with an empty dependency list: it runs on mount only.
ResetEffectOnMount(ts, sel, map) == map

ResetEffect(ts, sel, map) ==
    IF ResetRuns(ts, sel)
    THEN InitialMap(ts[ActiveIndex(ts, sel)].content)
    ELSE map

\* Some variable of the map has a value.
HasValue(map) == \E k \in DOMAIN map : map[k].value # <<>>

\* { ...prev, [v]: value }: an old key keeps its place, a new one goes last.
SetEntry(map, v, value) ==
    IF \E k \in DOMAIN map : map[k].key = v
    THEN [k \in DOMAIN map |-> IF map[k].key = v THEN [key |-> v, value |-> value] ELSE map[k]]
    ELSE Append(map, [key |-> v, value |-> value])

RECURSIVE Trim(_)
Trim(text) ==
    IF text = <<>> THEN <<>>
    ELSE IF Head(text) = " " THEN Trim(Tail(text))
    ELSE IF text[Len(text)] = " " THEN Trim(SubSeq(text, 1, Len(text) - 1))
    ELSE text

\* The AI modal overlays the page: nothing under it can be clicked.
ModalShown == isEditing /\ showAiModal

\* A handler has set templates and selectedTemplateId: the effects that hang
\* on them run with the render that follows.
Commit(ts, sel) ==
    /\ templates' = ts
    /\ selectedTemplateId' = sel
    /\ stored' = SaveEffect(ts, stored)
    /\ variableValues' = ResetEffect(ts, sel, variableValues)
    /\ discarded' = (discarded \/ (ResetRuns(ts, sel) /\ HasValue(variableValues)))

\* What an earlier session left in the storage: the first two of the
\* initial templates, the third having been deleted.
EarlierSession(t) ==
    [has |-> TRUE, data |-> SubSeq(LoadTemplates(NoStorage, t), 1, 2)]

\* The state after the first render and its effects.
Init ==
    /\ EngineIdle
    /\ now = 2
    /\ apiKey \in BOOLEAN
    /\ templates = LoadTemplates(EarlierSession(now), now)
    /\ stored = SaveEffect(templates, EarlierSession(now))
    /\ selectedTemplateId = 0
    /\ isEditing = FALSE
    /\ editForm = EmptyForm
    /\ variableValues = <<>>
    /\ discarded = FALSE
    /\ showAiModal = FALSE
    /\ aiPrompt = <<>>
    /\ isGeneratingAI = FALSE
    /\ aiRequest = NoRequest
    /\ aiOutcome = "none"
    /\ pendingCopies = {}
    /\ nextId = NumInitial + 1

\* The engine's specifications leave the App as it is.
AppIdle ==
    /\ now = 2 /\ apiKey = FALSE
    /\ templates = <<>> /\ stored = NoStorage
    /\ selectedTemplateId = 0 /\ isEditing = FALSE /\ editForm = EmptyForm
    /\ variableValues = <<>> /\ discarded = FALSE
    /\ showAiModal = FALSE /\ aiPrompt = <<>>
    /\ isGeneratingAI = FALSE /\ aiRequest = NoRequest /\ aiOutcome = "none"
    /\ pendingCopies = {}
    /\ nextId = 1

\* Date.now() moves on.
Tick ==
    /\ now < MaxClock
    /\ now' = now + 1
    /\ UNCHANGED <<engineVars, collectionVars, editVars, aiVars, pendingCopies,
                   apiKey, nextId>>

\* A click on a template of the list.
SelectTemplate ==
    /\ ~ModalShown
    /\ \E k \in DOMAIN templates : Commit(templates, templates[k].id)
    /\ UNCHANGED <<engineVars, editVars, aiVars, pendingCopies, envVars>>

\* The close button of the view: setSelectedTemplateId(null).
CloseTemplate ==
    /\ ~isEditing /\ HasActive
    /\ Commit(templates, 0)
    /\ UNCHANGED <<engineVars, editVars, aiVars, pendingCopies, envVars>>

handleBackToList ==
    /\ ~isEditing /\ HasActive
    /\ Commit(templates, 0)
    /\ isEditing' = FALSE
    /\ UNCHANGED <<engineVars, editForm, aiVars, pendingCopies, envVars>>

\* The draft's own id is a fresh one that no template ever gets: handleSave
\* draws another for the template it adds.
handleCreateNew ==
    /\ ~ModalShown
    /\ editForm' = [id |-> 0, title |-> TitleText, content |-> ContentA, lastUsed |-> now]
    /\ Commit(templates, 0)
    /\ isEditing' = TRUE
    /\ UNCHANGED <<engineVars, aiVars, pendingCopies, envVars>>

handleEditStart ==
    /\ ~isEditing /\ HasActive
    /\ editForm' = activeTemplate
    /\ isEditing' = TRUE
    /\ UNCHANGED <<engineVars, collectionVars, aiVars, pendingCopies, envVars>>

\* The title box and the content editor of the edit form.
EditTitle ==
    /\ isEditing /\ ~showAiModal
    /\ \E t \in Titles : editForm' = [editForm EXCEPT !.title = t]
    /\ UNCHANGED <<engineVars, collectionVars, isEditing, aiVars, pendingCopies, envVars>>

EditContent ==
    /\ isEditing /\ ~showAiModal
    /\ \E c \in Contents : editForm' = [editForm EXCEPT !.content = c]
    /\ UNCHANGED <<engineVars, collectionVars, isEditing, aiVars, pendingCopies, envVars>>

\* The close button of the editor: setIsEditing(false).
CloseEditor ==
    /\ isEditing /\ ~showAiModal
    /\ isEditing' = FALSE
    /\ UNCHANGED <<engineVars, collectionVars, editForm, aiVars, pendingCopies, envVars>>

\* { ...t, ...editForm }: the form has every field of a template, and each
\* overrides the template's.
SpreadForm(t, form) == form

\* prev.map(t => t.id === editForm.id ? { ...t, ...editForm } : t)
UpdateExisting(ts, form) ==
    [k \in DOMAIN ts |-> IF ts[k].id = form.id THEN SpreadForm(ts[k], form) ELSE ts[k]]

\* [newT, ...prev] with newT = { ...editForm, id: generateId(), lastUsed: Date.now() }
AddNew(ts, form, id, t) ==
    <<[form EXCEPT !.id = id, !.lastUsed = t]>> \o ts

handleSave ==
    /\ isEditing /\ ~showAiModal
    /\ IF editForm.title = <<>> \/ editForm.content = <<>>
       THEN UNCHANGED <<collectionVars, isEditing, nextId>>
       ELSE IF HasActive /\ activeTemplate.id = editForm.id
       THEN /\ Commit(UpdateExisting(templates, editForm), selectedTemplateId)
            /\ isEditing' = FALSE
            /\ UNCHANGED nextId
       ELSE /\ nextId <= NumInitial + MaxNewTemplates
            /\ Commit(AddNew(templates, editForm, nextId, now), nextId)
            /\ nextId' = nextId + 1
            /\ isEditing' = FALSE
    /\ UNCHANGED <<engineVars, editForm, aiVars, pendingCopies, apiKey, now>>

\* prev.filter(t => t.id !== activeTemplate?.id)
RemoveTemplate(ts, id) == SelectSeq(ts, LAMBDA t : t.id # id)

\* The delete button, the confirm() answered either way.
handleDelete ==
    /\ ~isEditing /\ HasActive
    /\ \E confirmed \in BOOLEAN :
           IF confirmed
           THEN Commit(RemoveTemplate(templates, activeTemplate.id), 0)
           ELSE UNCHANGED collectionVars
    /\ UNCHANGED <<engineVars, editVars, aiVars, pendingCopies, envVars>>

\* An input of the view: one variable of the active template gets a value.
SetVariable ==
    /\ ~isEditing /\ HasActive
    /\ \E v \in Range(extractVariables(activeTemplate.content)), value \in Inputs :
           variableValues' = SetEntry(variableValues, v, value)
    /\ UNCHANGED <<engineVars, templates, selectedTemplateId, stored, discarded,
                   editVars, aiVars, pendingCopies, envVars>>

\* handleCopy up to its await: the text is built and the clipboard write
\* started; the call keeps the id of the template that was active.
CopyClick ==
    /\ ~isEditing /\ HasActive
    /\ ~replaceVariables(activeTemplate.content, variableValues).threw
    /\ Cardinality(pendingCopies \cup {activeTemplate.id}) <= MaxPendingCopies
    /\ pendingCopies' = pendingCopies \cup {activeTemplate.id}
    /\ UNCHANGED <<engineVars, collectionVars, editVars, aiVars, envVars>>

\* prev.map(t => t.id === id ? { ...t, lastUsed: Date.now() } : t)
TouchLastUsed(ts, id, t) ==
    [k \in DOMAIN ts |-> IF ts[k].id = id THEN [ts[k] EXCEPT !.lastUsed = t] ELSE ts[k]]

\* The clipboard write succeeded: handleCopy goes on after its await.
CopyResolve ==
    /\ \E id \in pendingCopies :
           /\ Commit(TouchLastUsed(templates, id, now), selectedTemplateId)
           /\ pendingCopies' = pendingCopies \ {id}
    /\ UNCHANGED <<engineVars, editVars, aiVars, envVars>>

\* The clipboard write failed: the fallback leaves the templates alone.
CopyReject ==
    /\ \E id \in pendingCopies : pendingCopies' = pendingCopies \ {id}
    /\ UNCHANGED <<engineVars, collectionVars, editVars, aiVars, envVars>>

OpenAiModal ==
    /\ isEditing /\ ~showAiModal
    /\ showAiModal' = TRUE
    /\ UNCHANGED <<engineVars, collectionVars, editVars, aiPrompt, isGeneratingAI,
                   aiRequest, aiOutcome, pendingCopies, envVars>>

SetAiPrompt ==
    /\ ModalShown
    /\ \E p \in Prompts : aiPrompt' = p
    /\ UNCHANGED <<engineVars, collectionVars, editVars, showAiModal, isGeneratingAI,
                   aiRequest, aiOutcome, pendingCopies, envVars>>

CancelAiModal ==
    /\ ModalShown
    /\ showAiModal' = FALSE
    /\ UNCHANGED <<engineVars, collectionVars, editVars, aiPrompt, isGeneratingAI,
                   aiRequest, aiOutcome, pendingCopies, envVars>>

\* handleAiSuggestion with the setEditForm after the try block instead of in
\* it: the form takes what the call gave, and a failed call gave nothing.
AiSettleAfterTry(form, returned, text, currentContent) ==
    [form EXCEPT !.content = text]

\* What handleAiSuggestion makes of the form once suggestContent settled:
\* prev => ({ ...prev, content: newContent }) when it returned, with
\* newContent = response.text || currentContent; nothing when it threw.
AiSettle(form, returned, text, currentContent) ==
    IF returned
    THEN [form EXCEPT !.content = IF text # <<>> THEN text ELSE currentContent]
    ELSE form

\* The guard of handleAiSuggestion: a blank prompt or an empty content ends
\* it at once.
AiGuard == Trim(aiPrompt) # <<>> /\ editForm.content # <<>>

\* handleAiSuggestion with no key: suggestContent throws before it calls the
\* network, the catch and finally blocks run at once, and isGeneratingAI is
\* false again.
RewriteWithoutKey ==
    /\ ModalShown /\ ~isGeneratingAI /\ AiGuard
    /\ ~apiKey
    /\ editForm' = AiSettle(editForm, FALSE, <<>>, editForm.content)
    /\ aiOutcome' = "threw"
    /\ UNCHANGED <<engineVars, collectionVars, isEditing, showAiModal, aiPrompt,
                   isGeneratingAI, aiRequest, pendingCopies, envVars>>

\* handleAiSuggestion with a key, up to its await: the request is sent.
RewriteRequest ==
    /\ ModalShown /\ ~isGeneratingAI /\ AiGuard
    /\ apiKey
    /\ isGeneratingAI' = TRUE
    /\ aiRequest' = [active |-> TRUE, currentContent |-> editForm.content,
                     formId |-> editForm.id]
    /\ aiOutcome' = "pending"
    /\ UNCHANGED <<engineVars, collectionVars, editVars, showAiModal, aiPrompt,
                   pendingCopies, envVars>>

\* The button pressed with a blank prompt or an empty content.
RewriteRefused ==
    /\ ModalShown /\ ~isGeneratingAI /\ ~AiGuard
    /\ UNCHANGED vars

handleAiSuggestion == RewriteRefused \/ RewriteWithoutKey \/ RewriteRequest

\* The provider answered.
AiResolve ==
    /\ aiRequest.active
    /\ \E text \in Answers :
           editForm' = AiSettle(editForm, TRUE, text, aiRequest.currentContent)
    /\ showAiModal' = FALSE
    /\ aiPrompt' = <<>>
    /\ isGeneratingAI' = FALSE
    /\ aiRequest' = NoRequest
    /\ aiOutcome' = "returned"
    /\ UNCHANGED <<engineVars, collectionVars, isEditing, pendingCopies, envVars>>

\* The network or the provider failed.
AiReject ==
    /\ aiRequest.active
    /\ editForm' = AiSettle(editForm, FALSE, <<>>, aiRequest.currentContent)
    /\ isGeneratingAI' = FALSE
    /\ aiRequest' = NoRequest
    /\ aiOutcome' = "threw"
    /\ UNCHANGED <<engineVars, collectionVars, isEditing, showAiModal, aiPrompt,
                   pendingCopies, envVars>>

\* The page is loaded again: every state is fresh, the pending calls are
\* gone, and the collection comes from the storage.
Reload ==
    /\ templates' = LoadTemplates(stored, now)
    /\ stored' = SaveEffect(templates', stored)
    /\ selectedTemplateId' = 0
    /\ isEditing' = FALSE
    /\ editForm' = EmptyForm
    /\ variableValues' = <<>>
    /\ discarded' = discarded
    /\ showAiModal' = FALSE
    /\ aiPrompt' = <<>>
    /\ isGeneratingAI' = FALSE
    /\ aiRequest' = NoRequest
    /\ aiOutcome' = "none"
    /\ pendingCopies' = {}
    /\ UNCHANGED <<engineVars, envVars>>

\* Every operation of the App.
Next ==
    \/ Tick \/ SelectTemplate \/ CloseTemplate \/ handleBackToList
    \/ handleCreateNew \/ handleEditStart \/ EditTitle \/ EditContent
    \/ CloseEditor \/ handleSave \/ handleDelete \/ SetVariable
    \/ CopyClick \/ CopyResolve \/ CopyReject
    \/ OpenAiModal \/ SetAiPrompt \/ CancelAiModal
    \/ RewriteRefused \/ RewriteWithoutKey \/ RewriteRequest
    \/ AiResolve \/ AiReject \/ Reload

Spec == Init /\ [][Next]_vars

\* The App in use: selecting, editing, saving, deleting and copying, as the
\* clock moves on.  The AI modal stays closed and the variable inputs empty.
NextUse ==
    \/ Tick \/ SelectTemplate \/ CloseTemplate \/ handleBackToList
    \/ handleCreateNew \/ handleEditStart \/ EditTitle \/ EditContent
    \/ CloseEditor \/ handleSave \/ handleDelete
    \/ CopyClick \/ CopyResolve \/ CopyReject \/ Reload

SpecUse == Init /\ [][NextUse]_vars

\* The App with its AI modal: selecting, editing, saving, deleting and
\* rewriting.  Nothing is copied, the clock stands and the variable inputs
\* stay empty.
NextAi ==
    \/ SelectTemplate \/ CloseTemplate \/ handleBackToList
    \/ handleCreateNew \/ handleEditStart \/ EditTitle \/ EditContent
    \/ CloseEditor \/ handleSave \/ handleDelete
    \/ OpenAiModal \/ SetAiPrompt \/ CancelAiModal
    \/ RewriteRefused \/ RewriteWithoutKey \/ RewriteRequest
    \/ AiResolve \/ AiReject \/ Reload

SpecAi == Init /\ [][NextAi]_vars

\* The App with its variable inputs: selecting, creating, editing, saving
\* and deleting templates while values are typed.  Nothing is copied, the AI
\* modal stays closed and the clock stands.
NextVars ==
    \/ SelectTemplate \/ CloseTemplate \/ handleBackToList
    \/ handleCreateNew \/ handleEditStart \/ EditContent
    \/ CloseEditor \/ handleSave \/ handleDelete
    \/ SetVariable \/ Reload

SpecVars == Init /\ [][NextVars]_vars

(***************************************************************************)
(* The engine's operations, each applied to the inputs drawn               *)
(***************************************************************************)
InitExtract ==
    /\ content \in ExtractInputs /\ values = <<>>
    /\ names = NotRun /\ out = NotRun /\ out2 = NotRun /\ norm = NotRun
    /\ plain = NotRun
    /\ AppIdle

Extract ==
    /\ ~names.run
    /\ names' = [run |-> TRUE, list |-> extractVariables(content)]
    /\ UNCHANGED <<content, values, out, out2, norm, plain, appVars>>

NextExtract == Extract

SpecExtract == InitExtract /\ [][NextExtract]_vars

InitSubst ==
    /\ content \in SubstInputs /\ values \in VariableMaps
    /\ names = NotRun /\ out = NotRun /\ out2 = NotRun /\ norm = NotRun
    /\ plain = NotRun
    /\ AppIdle

Substitute ==
    /\ ~out.run
    /\ out' = replaceVariables(content, values)
    /\ UNCHANGED <<content, values, names, out2, norm, plain, appVars>>

\* The result of a call that returned is substituted once more.
SubstituteAgain ==
    /\ out.run /\ ~out.threw /\ ~out2.run
    /\ out2' = replaceVariables(Chars(out.cells), values)
    /\ UNCHANGED <<content, values, names, out, norm, plain, appVars>>

NextSubst == Substitute \/ SubstituteAgain

SpecSubst == InitSubst /\ [][NextSubst]_vars

InitNorm ==
    /\ content \in NormInputs /\ values = <<>>
    /\ names = NotRun /\ out = NotRun /\ out2 = NotRun /\ norm = NotRun
    /\ plain = NotRun
    /\ AppIdle

Normalize ==
    /\ ~norm.run
    /\ norm' = [run |-> TRUE, text |-> normalizeContent(content)]
    /\ UNCHANGED <<content, values, names, out, out2, plain, appVars>>

NextNorm == Normalize

SpecNorm == InitNorm /\ [][NextNorm]_vars

InitPlain ==
    /\ content \in PlainInputs /\ values = <<>>
    /\ names = NotRun /\ out = NotRun /\ out2 = NotRun /\ norm = NotRun
    /\ plain = NotRun
    /\ AppIdle

ToPlainText ==
    /\ ~plain.run
    /\ plain' = [run |-> TRUE, text |-> htmlToPlainText(content)]
    /\ UNCHANGED <<content, values, names, out, out2, norm, appVars>>

NextPlain == ToPlainText

SpecPlain == InitPlain /\ [][NextPlain]_vars

(***************************************************************************)
(* What the claims speak of, stated apart from the code                    *)
(***************************************************************************)
BraceChars == {"{", "}"}

MarkupChars == {"<", ">", "&"}

\* A placeholder span: an opening brace, one or more non-brace characters,
\* a closing brace.
IsPlaceholderSpan(text, i, j) ==
    /\ 1 <= i /\ i + 2 <= j /\ j <= Len(text)
    /\ text[i] = "{" /\ text[j] = "}"
    /\ \A k \in (i + 1)..(j - 1) : text[k] \notin BraceChars

PlaceholderSpans(text) ==
    {sp \in (1..Len(text)) \X (1..Len(text)) : IsPlaceholderSpan(text, sp[1], sp[2])}

PlaceholderNames(text) ==
    {SubSeq(text, sp[1] + 1, sp[2] - 1) : sp \in PlaceholderSpans(text)}

\* The names the map fills: its keys with a non-empty value.
FilledKeys(variables) ==
    {variables[k].key : k \in {i \in DOMAIN variables : variables[i].value # <<>>}}

MapKeys(variables) == {variables[k].key : k \in DOMAIN variables}

Returned(r) == r.run /\ ~r.threw

OutText == Chars(out.cells)

\* The index of the first occurrence of the literal {name} in text, or 0.
FirstOccurrence(name, text) ==
    LET at == {i \in 1..Len(text) : OccursAt(Braced(name), text, i)}
    IN  IF at = {} THEN 0 ELSE CHOOSE i \in at : \A j \in at : i <= j

\* C1: the result holds no {name} for a name the map fills, and holds {name}
\* for every name that occurs as {name} in the content and that the map
\* does not fill.
C1_FilledGoneUnfilledKept ==
    Returned(out) =>
        /\ \A n \in FilledKeys(values) : ~Includes(OutText, Braced(n))
        /\ \A n \in PlaceholderNames(content) \ FilledKeys(values) :
               Includes(OutText, Braced(n))

\* An entity the escaping writes starts at cell j, all of it from a value.
EntityAt(cells, j) ==
    \E ent \in {<<"&", "a", "m", "p", ";">>, <<"&", "l", "t", ";">>, <<"&", "g", "t", ";">>} :
        /\ j + Len(ent) - 1 <= Len(cells)
        /\ \A k \in 1..Len(ent) : cells[j + k - 1] = [c |-> ent[k], o |-> 0]

InSomePlaceholder(text, p) ==
    \E sp \in PlaceholderSpans(text) : sp[1] <= p /\ p <= sp[2]

\* C2: no "<", ">" or bare "&" of the result comes from a value, and every
\* "<", ">" and "&" of the content outside its placeholders is in the result
\* as it was.
C2_ValuesEscapedMarkupIntact ==
    Returned(out) =>
        /\ \A j \in DOMAIN out.cells :
               out.cells[j].o = 0 =>
                   /\ out.cells[j].c \notin {"<", ">"}
                   /\ out.cells[j].c = "&" => EntityAt(out.cells, j)
        /\ \A p \in DOMAIN content :
               (content[p] \in MarkupChars /\ ~InSomePlaceholder(content, p)) =>
                   Cardinality({j \in DOMAIN out.cells :
                                   out.cells[j] = [c |-> content[p], o |-> p]}) = 1

NoBraces(variables) ==
    \A k \in DOMAIN variables : Range(variables[k].value) \cap BraceChars = {}

\* C3: with no brace in any value, substituting the result again gives the
\* same result.
C3_Idempotent ==
    (out2.run /\ NoBraces(values)) =>
        /\ ~out2.threw
        /\ Chars(out2.cells) = OutText

\* C4: replaceVariables returns for every map whose keys are names that
\* extractVariables found in the same content.
C4_SubstituteNeverThrows ==
    (out.run /\ MapKeys(values) \subseteq Range(extractVariables(content))) => ~out.threw

\* The content's indices outside every placeholder whose name the map fills.
KeptIndices(text, variables) ==
    {p \in DOMAIN text :
        ~\E sp \in PlaceholderSpans(text) :
            /\ sp[1] <= p /\ p <= sp[2]
            /\ SubSeq(text, sp[1] + 1, sp[2] - 1) \in FilledKeys(variables)}

\* The origins of the result's characters that are the content's own.
OwnOrigins(cells) ==
    LET own == SelectSeq(cells, LAMBDA cell : cell.o # 0)
    IN  [k \in 1..Len(own) |-> own[k].o]

IsIncreasing(s) == \A k \in 1..(Len(s) - 1) : s[k] < s[k + 1]

\* C5: the content's characters that the result keeps, in their order, are
\* exactly those outside the placeholders whose name is a key with a
\* non-empty value.
C5_OnlyExactPlaceholdersTouched ==
    Returned(out) =>
        /\ IsIncreasing(OwnOrigins(out.cells))
        /\ Range(OwnOrigins(out.cells)) = KeptIndices(content, values)

\* C6: the names are pairwise distinct, in the order of the first occurrence
\* of each {name} in the content, and none when the content has no
\* placeholder.
C6_DistinctFirstOccurrenceOrder ==
    names.run =>
        /\ \A k, l \in DOMAIN names.list : k # l => names.list[k] # names.list[l]
        /\ \A k, l \in DOMAIN names.list :
               k < l => FirstOccurrence(names.list[k], content)
                            < FirstOccurrence(names.list[l], content)
        /\ PlaceholderSpans(content) = {} => names.list = <<>>

\* C7: the names are exactly the inner texts of the placeholder spans, each
\* non-empty and free of braces.
C7_NamesAreInnerTexts ==
    names.run =>
        /\ Range(names.list) = PlaceholderNames(content)
        /\ \A k \in DOMAIN names.list :
               names.list[k] # <<>> /\ Range(names.list[k]) \cap BraceChars = {}

\* C8: the lastUsed of a template in the collection never gets smaller from
\* one state to the next, whatever the operation, as long as the template
\* stays in the collection.
C8_LastUsedNeverDecreases ==
    [][\A k \in DOMAIN templates, l \in DOMAIN templates' :
           templates[k].id = templates'[l].id
               => templates'[l].lastUsed >= templates[k].lastUsed]_vars

\* A rewrite has just failed: suggestContent threw in this step.
RewriteFails == aiOutcome' = "threw" /\ aiOutcome # "threw"

\* C9: a step in which a rewrite fails leaves the edit form as it was, and
\* with no credential no request is ever under way.
C9_FailureKeepsContent ==
    /\ [][RewriteFails => editForm' = editForm]_vars
    /\ [](~apiKey => ~aiRequest.active)

\* A request that was sent has failed, and the edit form is still open with
\* its title and content.
C9_RequestFailed ==
    /\ aiOutcome = "threw" /\ apiKey /\ isEditing
    /\ editForm.content = ContentB /\ editForm.title = TitleText

\* A markup tag: "<", a letter or "/" and a letter, and a ">" after them.
HasMarkupTag(text) ==
    \E i \in DOMAIN text :
        /\ text[i] = "<"
        /\ \/ i + 1 <= Len(text) /\ text[i + 1] \in Letters
              /\ \E j \in (i + 2)..Len(text) : text[j] = ">"
           \/ i + 2 <= Len(text) /\ text[i + 1] = "/" /\ text[i + 2] \in Letters
              /\ \E j \in (i + 3)..Len(text) : text[j] = ">"

\* The text with a <br> in the place of each newline.
BrForNewline(text) ==
    Concat([i \in DOMAIN text |->
               IF text[i] = "\n" THEN <<"<", "b", "r", ">">> ELSE <<text[i]>>])

\* C10: with no markup tag, each newline becomes one <br> and nothing else
\* changes; with a markup tag, or with no newline, the content is returned
\* as it is.
C10_NormalizeLegacy ==
    norm.run =>
        /\ (~HasMarkupTag(content) /\ "\n" \in Range(content)) =>
               norm.text = BrForNewline(content)
        /\ HasMarkupTag(content) => norm.text = content
        /\ "\n" \notin Range(content) => norm.text = content

\* The number of places where t occurs in s.
Occurrences(s, t) == Cardinality({i \in 1..Len(s) : OccursAt(t, s, i)})

ActiveChanges ==
    /\ ActiveId(templates', selectedTemplateId') # 0
    /\ ActiveId(templates', selectedTemplateId')
           # ActiveId(templates, selectedTemplateId)

\* The map has exactly the placeholder names of the text as keys, none
\* twice, each with the empty string.
IsFreshMap(map, text) ==
    /\ {map[k].key : k \in DOMAIN map} = PlaceholderNames(text)
    /\ \A k, l \in DOMAIN map : map[k].key = map[l].key => k = l
    /\ \A k \in DOMAIN map : map[k].value = <<>>

\* C12: after every step that makes another template the active one, the
\* map has exactly that template's placeholder names, each with the empty
\* string.
C12_MapResetOnChange ==
    [][ActiveChanges =>
          IsFreshMap(variableValues',
                     templates'[ActiveIndex(templates', selectedTemplateId')].content)]_vars

\* A template has become active while the map held a typed value, and the
\* map now has that template's names with no value.
C12_TypedValueDiscarded ==
    /\ discarded /\ HasActive
    /\ variableValues # <<>> /\ ~HasValue(variableValues)

\* C13: loading the application again yields exactly the collection that was
\* in memory, a deleted template included: it does not come back.
C13_ReloadYieldsMemory ==
    [][Reload => templates' = templates]_vars

\* The ids of the templates, in the collection's order.
Ids(ts) == [k \in DOMAIN ts |-> ts[k].id]

\* The form holds an edit of a template of the collection, fit to be saved.
EditOfExisting ==
    /\ editForm.title # <<>> /\ editForm.content # <<>>
    /\ \E k \in DOMAIN templates : templates[k].id = editForm.id

\* C14: saving an edit of an existing template leaves the number and the
\* ids of the templates as they were and gives the template the fields of
\* the form, whichever template is selected at that moment.
C14_SaveUpdatesInPlace ==
    [][(handleSave /\ EditOfExisting) =>
          /\ Ids(templates') = Ids(templates)
          /\ \A k \in DOMAIN templates' :
                 templates'[k].id = editForm.id =>
                     /\ templates'[k].title = editForm.title
                     /\ templates'[k].content = editForm.content]_vars

\* A rewrite that was under way has just returned.
RewriteReturns == aiOutcome = "pending" /\ aiOutcome' = "returned"

\* C15: when a rewrite returns while the edit form open is that of another
\* template than the one the rewrite was asked for, the form's content is
\* left as it is.
C15_RewriteOnlyForItsSession ==
    [][(RewriteReturns /\ isEditing /\ editForm.id # aiRequest.formId) =>
          editForm'.content = editForm.content]_vars

====
